---- MODULE Spec2Model ----
(***************************************************************************)
(* Model of the trading bot's run (src/bot.py main), its paper broker and  *)
(* its persisted state.                                                    *)
(*                                                                         *)
(* Numbers.  The program computes in floats.  The model computes on a      *)
(* fixed-point grid: prices are integer ticks of 0.01 EUR, quantities are  *)
(* integer units of 0.01 coin, and money is counted in tick*unit           *)
(* (1 EUR = OneEUR money units), so that quantity * price is exact.        *)
(* A quotient is rounded down to the grid (Div) where the program divides. *)
(* An optional value (None in Python) is the empty sequence, a present     *)
(* value v is <<v>>.                                                       *)
(***************************************************************************)
EXTENDS Integers, Sequences, FiniteSets, TLC

\* ------------------------------------------------------------------ bounds
MaxFills == 2         \* a run starts its loop while fills.csv is shorter
MaxDate == 1          \* UTC dates are 0..MaxDate
MaxBars == 4          \* a price series has 1..MaxBars bars

\* ------------------------------------------------------------- primitives
None == <<>>
Some(v) == <<v>>
\* Python `x or d`: d when x is None or 0.0
OrElse(opt, d) == IF opt = None THEN d ELSE IF opt[1] = 0 THEN d ELSE opt[1]
\* Python truthiness of an optional number
Truthy(opt) == opt # None /\ opt[1] # 0
Div(a, b) == a \div b
CeilDiv(a, b) == (a + b - 1) \div b
OneEUR == 100 * 100
Bps == 100 * 100

RECURSIVE SumOver(_, _)
SumOver(S, f) ==
    IF S = {} THEN 0
    ELSE LET x == CHOOSE y \in S : TRUE IN f[x] + SumOver(S \ {x}, f)

\* round(x, 2) of a money amount: to the nearest cent (100 money units),
\* ties to the even cent
Round2(x) ==
    LET q == x \div 100
        r == x % 100
    IN  IF r < 50 THEN q * 100
        ELSE IF r > 50 THEN (q + 1) * 100
        ELSE IF q % 2 = 0 THEN q * 100 ELSE (q + 1) * 100

\* ---------------------------------------------------------- configuration
\* config.yaml as load_config returns it; the values the code has defaults
\* for are the defaults
cfg ==
    [ symbols                |-> << "BTC/EUR", "ETH/EUR" >>,
      paper_start_eur        |-> 100 * OneEUR,
      paper_fee_bps          |-> 26,
      paper_slippage_bps     |-> 5,
      max_daily_drawdown_bps |-> 100,
      risk_per_trade_bps     |-> 25,
      session_utc            |-> [ start_hour |-> 9, end_hour |-> 23 ] ]

\* every symbol a persisted position may name
Symbols == { "BTC/EUR", "ETH/EUR", "XRP/EUR" }
CfgSymbols == { cfg.symbols[i] : i \in 1..Len(cfg.symbols) }

\* ex.load_markets(): the symbols the exchange lists in a run, with limits
MarketSets == { { "BTC/EUR", "ETH/EUR", "XRP/EUR" }, { "BTC/EUR", "XRP/EUR" } }
Limits(symbol) ==
    IF symbol = "ETH/EUR"
    THEN [ cost_min |-> Some(5 * OneEUR), amount_min |-> Some(1) ]
    ELSE [ cost_min |-> None, amount_min |-> None ]

\* ------------------------------------------------------------ environment
Hours == { 8, 9, 23 }
Dates == 0..MaxDate
Closes == { 2000, 1900 }
StopDists == { 0, 8 }
Bars ==
    { b \in [ close : Closes, low : 1800..2000, signal_long : BOOLEAN,
              signal_exit : BOOLEAN, stop_dist : StopDists ] :
        /\ b.low \in { b.close, b.close - 100 }
        /\ ~(b.signal_long /\ b.signal_exit) }
FetchOutcomes == { "ok", "error", "short" }
\* create_order in live mode: rejected (it raises), or filled in full at an
\* average price off the last close; fetch_balance gives the balance
AvgOffsets == { -30 }
LiveBalances == { 100 * OneEUR }
NoOrder == [ status |-> "ok", average |-> None, balance |-> 0 ]
Orders(px) ==
    { [ NoOrder EXCEPT !.status = "rejected" ] } \cup
    { [ status |-> "ok", average |-> av, balance |-> bal ] :
        av \in { Some(px + o) : o \in AvgOffsets },
        bal \in LiveBalances }

\* ------------------------------------------------------------------ state
VARIABLES
    PAPER,          \* PAPER_TRADING == '1'
    clock,          \* now_utc(): [date, hour]
    disk,           \* state.json
    fills,          \* fills.csv, append-only
    pc,             \* "idle" or "loop"
    mem,            \* state.data of the running process
    broker,         \* the PaperBroker of the running process
    markets,        \* load_markets() of the running process
    prices,         \* prices dict of the running process
    idx,            \* position of the for loop in cfg['symbols']
    analysisOnly,   \* ANALYSIS_ONLY == '1'
    gate,           \* what the gates of the last started run saw
    lastOutcome,    \* how the last run ended
    blockedAt,      \* the first run the drawdown gate blocked on its date
    ev,             \* what the last loop iteration did
    realized,       \* per UTC date, the P&L and the number of the exits made
    sz,             \* the sizing rule applied to one set of inputs
    au,             \* the process of src/audit.py
    st              \* the indicator engine applied to one series

\* the bot's process and files; the sizing rule on its own, the auditor and
\* the indicator engine on its own, which a run of the bot leaves alone
botVars == << PAPER, clock, disk, fills, pc, mem, broker, markets, prices, idx,
              analysisOnly, gate, lastOutcome, blockedAt, ev, realized >>
sideVars == << sz, au, st >>
vars == << PAPER, clock, disk, fills, pc, mem, broker, markets, prices, idx,
           analysisOnly, gate, lastOutcome, blockedAt, ev, realized, sz, au, st >>

FlatPos == [ qty |-> 0, entry |-> 0, stop |-> 0, risked_eur |-> 0 ]
ZeroDay(date) == [ date |-> date, pnl |-> 0, trades |-> 0, loss_streak |-> 0 ]

\* State.__init__ without a state.json
DefaultData ==
    [ equity    |-> None,
      cash_eur  |-> None,
      positions |-> [ s \in Symbols |-> FlatPos ],
      today     |-> ZeroDay(None) ]

\* a state.json left by earlier runs: flat, with the day's loss exactly at
\* max_daily_drawdown_bps of the equity
BoundaryData ==
    [ equity    |-> Some(100 * OneEUR),
      cash_eur  |-> Some(100 * OneEUR),
      positions |-> [ s \in Symbols |-> FlatPos ],
      today     |-> [ date |-> Some(0), pnl |-> -OneEUR, trades |-> 1,
                      loss_streak |-> 0 ] ]

NoBroker == [ cash |-> 0, holdings |-> [ s \in Symbols |-> 0 ] ]
NoPrices == [ s \in Symbols |-> None ]
NoGate == [ stored_date |-> None, date |-> 0, hour |-> 0, today |-> ZeroDay(None),
            equity_ref |-> 0 ]
\* the sizing rule, the auditor and the indicator engine before they are used
NoSizing ==
    [ equity_ref |-> 0, stop_dist |-> 0, px |-> 0, min_cost |-> None,
      min_qty |-> None, live |-> None, audit |-> None ]
NoAudit ==
    [ pc |-> "off", passed |-> TRUE, taker_bps |-> 26, markets |-> {},
      eur_total |-> 0, idx |-> 1, code |-> None,
      seen |-> [ s \in CfgSymbols |-> "" ] ]
NoSeries == [ bars |-> << >>, out |-> None ]
\* what a loop iteration observed: the symbol, how far it got (kind), the
\* bar's flags against the position read at line 155, the exit decision, and
\* what the execution adapter answered to the exit and to the entry
NoEv ==
    [ sym |-> "", kind |-> "", in_pos |-> FALSE, breach |-> FALSE,
      exit_flag |-> FALSE, long_flag |-> FALSE, exit_reason |-> "",
      exit |-> "none", entry |-> "none", sig_px |-> 0, stop_dist |-> 0,
      fill_px |-> 0 ]

\* ------------------------------------------------------------- State class
\* mutant: today taken in the Europe/Rome zone of ts_iso (UTC+1) instead of UTC
reset_if_new_day_local(data, now) ==
    LET today == IF now.hour + 1 >= 24 THEN now.date + 1 ELSE now.date
    IN  IF data.today.date # Some(today)
        THEN [ data EXCEPT !.today = ZeroDay(Some(today)) ]
        ELSE data

\* mutant: the new date is stored but the accumulators are kept
reset_if_new_day_keeps(data, now) ==
    IF data.today.date # Some(now.date)
    THEN [ data EXCEPT !.today.date = Some(now.date) ]
    ELSE data

\* State.reset_if_new_day, with now = now_utc()
reset_if_new_day(data, now) ==
    IF data.today.date # Some(now.date)
    THEN [ data EXCEPT !.today = ZeroDay(Some(now.date)) ]
    ELSE data

\* ------------------------------------------------------------ PaperBroker
PaperBroker(start_eur, positions) ==
    [ cash |-> start_eur, holdings |-> [ s \in Symbols |-> positions[s].qty ] ]

balance_eur(b, px) ==
    b.cash + SumOver(Symbols, [ s \in Symbols |-> b.holdings[s] * OrElse(px[s], 0) ])

\* mutant: the order is filled whatever the cash
buy_unchecked(b, symbol, price, eur_notional) ==
    LET px   == Div(price * (Bps + cfg.paper_slippage_bps), Bps)
        fee  == Div(eur_notional * cfg.paper_fee_bps, Bps)
        cost == eur_notional + fee
        qty  == Div(eur_notional, px)
    IN  [ broker |-> [ cash |-> b.cash - cost,
                       holdings |-> [ b.holdings EXCEPT ![symbol] = @ + qty ] ],
          qty |-> qty, px |-> px ]

\* lines 64-73
buy(b, symbol, price, eur_notional) ==
    LET px   == Div(price * (Bps + cfg.paper_slippage_bps), Bps)
        fee  == Div(eur_notional * cfg.paper_fee_bps, Bps)
        cost == eur_notional + fee
        qty  == Div(eur_notional, px)
    IN  IF b.cash < cost
        THEN [ broker |-> b, qty |-> 0, px |-> 0 ]
        ELSE [ broker |-> [ cash |-> b.cash - cost,
                            holdings |-> [ b.holdings EXCEPT ![symbol] = @ + qty ] ],
               qty |-> qty, px |-> px ]

sell(b, symbol, price, qty) ==
    LET pos == b.holdings[symbol]
        q   == IF qty < pos THEN qty ELSE pos
        px  == Div(price * (Bps - cfg.paper_slippage_bps), Bps)
        eur == q * px
        fee == Div(eur * cfg.paper_fee_bps, Bps)
    IN  IF pos <= 0
        THEN [ broker |-> b, qty |-> 0, px |-> 0 ]
        ELSE [ broker |-> [ cash |-> b.cash + (eur - fee),
                            holdings |-> [ b.holdings EXCEPT ![symbol] = pos - q ] ],
               qty |-> q, px |-> px ]

\* --------------------------------------------------------- main: preamble
\* lines 99-115: the state the run works on, after the reset and the
\* paper cash default
loaded(data, now, paper) ==
    LET d == reset_if_new_day(data, now)
    IN  IF paper /\ d.cash_eur = None
        THEN [ d EXCEPT !.cash_eur = Some(cfg.paper_start_eur) ]
        ELSE d

\* line 126: state.data['equity'] or cfg.get('paper_start_eur', 100.0)
equity_reference(data) == OrElse(data.equity, cfg.paper_start_eur)

\* mutant: the boundary is let through
daily_loss_limit_hit_strict(pnl, equity_ref) ==
    pnl < Div(-(cfg.max_daily_drawdown_bps * equity_ref), Bps)

\* line 126: pnl <= -(md_bps/1e4) * equity_ref
daily_loss_limit_hit(pnl, equity_ref) ==
    pnl <= Div(-(cfg.max_daily_drawdown_bps * equity_ref), Bps)

\* line 132: s <= utc_h < e
in_session(utc_h) ==
    cfg.session_utc.start_hour <= utc_h /\ utc_h < cfg.session_utc.end_hour

GateSeen(m) ==
    [ stored_date |-> disk.today.date, today |-> m.today,
      equity_ref |-> equity_reference(m) ]

\* now_utc() of a run: runs are started one after the other as time passes
Times == { [ date |-> d, hour |-> h ] : d \in Dates, h \in Hours }
NotBefore(t, u) == t.date > u.date \/ (t.date = u.date /\ t.hour >= u.hour)

\* lines 127-128 and 133-134: return before the loop and before state.save()
Returned(outcome) ==
    /\ lastOutcome' = outcome
    /\ ev' = NoEv
    /\ UNCHANGED << PAPER, disk, fills, pc, mem, broker, markets, prices,
                    idx, analysisOnly, realized >>
    /\ UNCHANGED sideVars

\* lines 96-128: the run the drawdown gate ends
RunBlockedDrawdown ==
    /\ pc = "idle"
    /\ \E now \in Times :
         LET m == loaded(disk, now, PAPER)
         IN  /\ NotBefore(now, clock)
             /\ clock' = now
             /\ daily_loss_limit_hit(m.today.pnl, equity_reference(m))
             /\ gate' = GateSeen(m)
             /\ blockedAt' = IF blockedAt # None /\ blockedAt[1].date = now.date
                             THEN blockedAt ELSE Some(now)
             /\ Returned("drawdown")

\* lines 96-134: the run the session window ends
RunBlockedSession ==
    /\ pc = "idle"
    /\ \E now \in Times :
         LET m == loaded(disk, now, PAPER)
         IN  /\ NotBefore(now, clock)
             /\ clock' = now
             /\ ~daily_loss_limit_hit(m.today.pnl, equity_reference(m))
             /\ ~in_session(now.hour)
             /\ gate' = GateSeen(m)
             /\ UNCHANGED blockedAt
             /\ Returned("session")

\* lines 96-137: the run that passes both gates and reaches the loop
RunStart ==
    /\ pc = "idle"
    /\ Len(fills) < MaxFills
    /\ \E now \in Times :
         LET m == loaded(disk, now, PAPER)
         IN  /\ NotBefore(now, clock)
             /\ clock' = now
             /\ ~daily_loss_limit_hit(m.today.pnl, equity_reference(m))
             /\ in_session(now.hour)
             /\ gate' = GateSeen(m)
             /\ mem' = m
             /\ broker' = IF PAPER THEN PaperBroker(m.cash_eur[1], m.positions)
                          ELSE NoBroker
    /\ \E ms \in MarketSets : markets' = ms
    /\ pc' = "loop"
    /\ idx' = 1
    /\ prices' = NoPrices
    /\ lastOutcome' = "running"
    /\ ev' = NoEv
    /\ UNCHANGED << PAPER, analysisOnly, disk, fills, blockedAt, realized >>
    /\ UNCHANGED sideVars

\* ------------------------------------------------------- main: loop body
\* the loop iteration's working state: what it has changed so far, what it
\* observed (ev), and whether an exception has ended the process
Ctx(symbol) ==
    [ mem |-> mem, broker |-> broker, fills |-> fills, prices |-> prices,
      ev |-> [ NoEv EXCEPT !.sym = symbol ], abort |-> FALSE ]

\* mutant: the signal is looked at before the stop
exit_reason_signal_first(in_pos, bar, pos) ==
    IF in_pos
    THEN IF bar.signal_exit THEN "signal_exit"
         ELSE IF bar.low <= pos.stop THEN "stop"
         ELSE ""
    ELSE ""

\* lines 163-167
exit_reason(in_pos, bar, pos) ==
    IF in_pos
    THEN IF bar.low <= pos.stop THEN "stop"
         ELSE IF bar.signal_exit THEN "signal_exit"
         ELSE ""
    ELSE ""

\* lines 179-181
exit_state(data, symbol, pnl) ==
    [ data EXCEPT !.today.pnl = @ + pnl,
                  !.today.trades = @ + 1,
                  !.positions[symbol] = FlatPos ]

\* lines 182-183 and 220-221: the rows of fills.csv (the timestamp left out)
ExitRow(symbol, qty, px, reason, pnl) ==
    [ symbol |-> symbol, action |-> "EXIT", qty |-> qty, px |-> px,
      reason |-> reason, stop |-> 0, pnl |-> Some(Round2(pnl)) ]
EntryRow(symbol, pos, stop_price) ==
    [ symbol |-> symbol, action |-> "ENTRY", qty |-> pos.qty, px |-> pos.entry,
      reason |-> "stop=", stop |-> stop_price, pnl |-> None ]

\* mutant: the rejection is swallowed and the order taken as filled
create_order_swallowed(ord) == FALSE

\* lines 176 and 215: ex.create_order raises on a rejected order, and main
\* catches nothing
create_order_raises(ord) == ord.status = "rejected"

\* lines 169-184
ExitPhase(c, symbol, bar, ord, pos, reason) ==
    IF reason = "" THEN c
    ELSE IF PAPER
    THEN LET r   == sell(c.broker, symbol, bar.close, pos.qty)
             pnl == (r.px - pos.entry) * r.qty
         IN  [ c EXCEPT
                 !.broker = r.broker,
                 !.mem = exit_state([ c.mem EXCEPT !.cash_eur = Some(r.broker.cash) ],
                                    symbol, pnl),
                 !.fills = Append(@, ExitRow(symbol, pos.qty, r.px, reason, pnl)),
                 !.ev.exit_reason = reason,
                 !.ev.exit = IF r.qty <= 0 THEN "failed" ELSE "done",
                 !.ev.fill_px = r.px ]
    ELSE IF create_order_raises(ord)
    THEN [ c EXCEPT !.abort = TRUE, !.ev.exit_reason = reason, !.ev.exit = "failed" ]
    ELSE LET px  == OrElse(ord.average, bar.close)
             pnl == (px - pos.entry) * pos.qty
         IN  [ c EXCEPT
                 !.mem = exit_state(c.mem, symbol, pnl),
                 !.fills = Append(@, ExitRow(symbol, pos.qty, px, reason, pnl)),
                 !.ev.exit_reason = reason,
                 !.ev.exit = IF ord.status = "rejected" THEN "failed" ELSE "done",
                 !.ev.fill_px = px ]

\* mutant: the position is read again after the exit
should_enter_reread(in_pos, cur_pos, bar) == (~(cur_pos.qty > 0)) /\ bar.signal_long

\* line 187: in_pos is the value read at line 156, before the exit
should_enter(in_pos, cur_pos, bar) == (~in_pos) /\ bar.signal_long

\* mutant: the basis points taken as percent
risk_budget_percent(equity_ref) == Div(cfg.risk_per_trade_bps * equity_ref, 100)

\* lines 194-196
risk_budget(equity_ref) == Div(cfg.risk_per_trade_bps * equity_ref, Bps)
base_qty(risk_eur, stop_dist) == Div(risk_eur, stop_dist)

\* mutant: min_cost / px without the margin, cut off at the quantity grid
adjust_min_truncated(qty, px, min_cost, min_qty) ==
    LET q1 == IF Truthy(min_cost) /\ qty * px < min_cost[1]
              THEN Div(min_cost[1], px) ELSE qty
    IN  IF Truthy(min_qty) /\ q1 < min_qty[1] THEN min_qty[1] ELSE q1

\* lines 202-204; (min_cost + 1e-9) / px is rounded up to the quantity grid,
\* 1e-9 EUR being below the grid's resolution
adjust_min(qty, px, min_cost, min_qty) ==
    LET q1 == IF Truthy(min_cost) /\ qty * px < min_cost[1]
              THEN CeilDiv(min_cost[1], px) ELSE qty
    IN  IF Truthy(min_qty) /\ q1 < min_qty[1] THEN min_qty[1] ELSE q1

\* line 207
stop_price_of(px, fill_px, stop_dist) == px - stop_dist

\* mutant: the empty fill is not looked at
entry_abandoned_never(bought_qty) == FALSE

\* line 211: if bought_qty <= 0: continue
entry_abandoned(bought_qty) == bought_qty <= 0

\* lines 187-222
EntryPhase(c, symbol, bar, ord, in_pos) ==
    IF ~should_enter(in_pos, c.mem.positions[symbol], bar) THEN c
    ELSE IF bar.stop_dist <= 0 THEN [ c EXCEPT !.ev.entry = "skip_stop" ]
    ELSE
    LET equity_ref == IF Truthy(c.mem.equity) THEN c.mem.equity[1]
                      ELSE IF PAPER THEN balance_eur(c.broker, c.prices)
                      ELSE ord.balance
        risk_eur   == risk_budget(equity_ref)
        px         == bar.close
        qty        == adjust_min(base_qty(risk_eur, bar.stop_dist), px,
                                 Limits(symbol).cost_min, Limits(symbol).amount_min)
        seen       == [ c.ev EXCEPT !.sig_px = px, !.stop_dist = bar.stop_dist ]
    IN  IF qty * px < OneEUR THEN [ c EXCEPT !.ev.entry = "skip_floor" ]
        ELSE IF PAPER
        THEN LET r   == buy(c.broker, symbol, px, qty * px)
                 pos == [ qty |-> r.qty, entry |-> r.px,
                          stop |-> stop_price_of(px, r.px, bar.stop_dist),
                          risked_eur |-> risk_eur ]
                 got == [ seen EXCEPT !.entry = IF r.qty <= 0 THEN "failed" ELSE "done",
                                      !.fill_px = r.px ]
             IN  IF entry_abandoned(r.qty)
                 THEN [ c EXCEPT !.broker = r.broker, !.ev = got ]
                 ELSE [ c EXCEPT
                          !.broker = r.broker,
                          !.mem = [ c.mem EXCEPT !.cash_eur = Some(r.broker.cash),
                                                 !.positions[symbol] = pos ],
                          !.fills = Append(@, EntryRow(symbol, pos, pos.stop)),
                          !.ev = got ]
        ELSE IF create_order_raises(ord)
        THEN [ c EXCEPT !.abort = TRUE, !.ev = [ seen EXCEPT !.entry = "failed" ] ]
        ELSE LET fill_px == OrElse(ord.average, px)
                 pos     == [ qty |-> qty, entry |-> fill_px,
                              stop |-> stop_price_of(px, fill_px, bar.stop_dist),
                              risked_eur |-> risk_eur ]
             IN  [ c EXCEPT
                     !.mem = [ c.mem EXCEPT !.positions[symbol] = pos ],
                     !.fills = Append(@, EntryRow(symbol, pos, pos.stop)),
                     !.ev = [ seen EXCEPT
                                !.entry = IF ord.status = "rejected" THEN "failed"
                                          ELSE "done",
                                !.fill_px = fill_px ] ]

\* lines 144-222 for a listed symbol whose fetch succeeded
Iteration(symbol, bar, ord) ==
    LET c1     == [ Ctx(symbol) EXCEPT !.prices[symbol] = Some(bar.close) ]
        pos    == mem.positions[symbol]
        in_pos == pos.qty > 0
        reason == exit_reason(in_pos, bar, pos)
        c2     == [ c1 EXCEPT !.ev.kind = "evaluated",
                              !.ev.in_pos = in_pos,
                              !.ev.breach = in_pos /\ bar.low <= pos.stop,
                              !.ev.exit_flag = in_pos /\ bar.signal_exit,
                              !.ev.long_flag = bar.signal_long ]
        c3     == ExitPhase(c2, symbol, bar, ord, pos, reason)
    IN  IF analysisOnly THEN [ c1 EXCEPT !.ev.kind = "analysis" ]
        ELSE IF c3.abort THEN c3
        ELSE EntryPhase(c3, symbol, bar, ord, in_pos)

\* the exits made so far, with the one of this iteration if it made one:
\* its row in fills.csv against the entry price of the position it closed
Realized(c) ==
    IF Len(c.fills) > Len(fills) /\ c.fills[Len(fills) + 1].action = "EXIT"
    THEN LET r == c.fills[Len(fills) + 1]
         IN  [ realized EXCEPT
                 ![clock.date].pnl = @ + (r.px - mem.positions[r.symbol].entry) * r.qty,
                 ![clock.date].trades = @ + 1 ]
    ELSE realized

\* an uncaught exception ends the process; state.json is not written
Aborted(c) ==
    /\ pc' = "idle"
    /\ realized' = Realized(c)
    /\ lastOutcome' = "abort"
    /\ ev' = c.ev
    /\ fills' = c.fills
    /\ mem' = DefaultData
    /\ broker' = NoBroker
    /\ prices' = NoPrices
    /\ idx' = 1
    /\ markets' = Symbols
    /\ gate' = NoGate
    /\ UNCHANGED << PAPER, clock, disk, analysisOnly, blockedAt >>
    /\ UNCHANGED sideVars

Continued(c) ==
    /\ idx' = idx + 1
    /\ realized' = Realized(c)
    /\ ev' = c.ev
    /\ fills' = c.fills
    /\ mem' = c.mem
    /\ broker' = c.broker
    /\ prices' = c.prices
    /\ UNCHANGED << PAPER, clock, disk, pc, markets, analysisOnly, gate,
                    lastOutcome, blockedAt >>
    /\ UNCHANGED sideVars

InLoop == pc = "loop" /\ idx <= Len(cfg.symbols)

\* lines 140-142
SkipSymbol ==
    /\ InLoop
    /\ cfg.symbols[idx] \notin markets
    /\ Continued([ Ctx(cfg.symbols[idx]) EXCEPT !.ev.kind = "not_listed" ])

\* lines 144-146: fetch_ohlcv raises, or the series has fewer than 2 rows
\* and df.iloc[-2] raises
FetchFails ==
    /\ InLoop
    /\ cfg.symbols[idx] \in markets
    /\ \E f \in FetchOutcomes \ { "ok" } :
         Aborted([ Ctx(cfg.symbols[idx]) EXCEPT !.abort = TRUE, !.ev.kind = f ])

ProcessSymbol ==
    /\ InLoop
    /\ cfg.symbols[idx] \in markets
    /\ \E bar \in Bars :
         \E ord \in IF PAPER THEN { NoOrder } ELSE Orders(bar.close) :
           LET c == Iteration(cfg.symbols[idx], bar, ord)
           IN  IF c.abort THEN Aborted(c) ELSE Continued(c)

\* lines 224-238; in live mode fetch_balance gives the EUR total and, for
\* each coin, the quantity the bot's orders have left on the account
FinishRun ==
    /\ pc = "loop"
    /\ idx > Len(cfg.symbols)
    /\ \E eur \in LiveBalances :
         LET m == IF PAPER
                  THEN [ mem EXCEPT
                           !.equity = Some(balance_eur(broker,
                                [ s \in Symbols |-> IF s \in CfgSymbols
                                                    THEN prices[s] ELSE None ])),
                           !.cash_eur = Some(broker.cash) ]
                  ELSE [ mem EXCEPT
                           !.equity = Some(eur + SumOver(CfgSymbols,
                                [ s \in CfgSymbols |->
                                    mem.positions[s].qty * OrElse(prices[s], 0) ])) ]
         IN  disk' = m
    /\ pc' = "idle"
    /\ lastOutcome' = "saved"
    /\ ev' = NoEv
    /\ mem' = DefaultData
    /\ broker' = NoBroker
    /\ prices' = NoPrices
    /\ idx' = 1
    /\ markets' = Symbols
    /\ gate' = NoGate
    /\ UNCHANGED << PAPER, clock, fills, analysisOnly, blockedAt, realized >>
    /\ UNCHANGED sideVars

\* the exits behind a state.json: those of its stored date
RealizedIn(data) ==
    [ d \in Dates |->
        IF data.today.date = Some(d)
        THEN [ pnl |-> data.today.pnl, trades |-> data.today.trades ]
        ELSE [ pnl |-> 0, trades |-> 0 ] ]

\* no run of the bot has started
Idle ==
    /\ clock = [ date |-> 0, hour |-> 8 ]
    /\ fills = << >>
    /\ pc = "idle"
    /\ mem = DefaultData
    /\ broker = NoBroker
    /\ markets = Symbols
    /\ prices = NoPrices
    /\ idx = 1
    /\ gate = NoGate
    /\ lastOutcome = "none"
    /\ blockedAt = None
    /\ ev = NoEv

Init ==
    /\ Idle
    /\ PAPER \in BOOLEAN
    /\ analysisOnly \in BOOLEAN
    /\ disk \in { DefaultData, BoundaryData }
    /\ realized = RealizedIn(disk)
    /\ sz = NoSizing
    /\ au = NoAudit
    /\ st = NoSeries

Next ==
    \/ RunBlockedDrawdown
    \/ RunBlockedSession
    \/ RunStart
    \/ SkipSymbol
    \/ FetchFails
    \/ ProcessSymbol
    \/ FinishRun

Spec == Init /\ [][Next]_vars

\* =========================================== the sizing rule on its own
\* inputs of the sizing rule: the equity the risk budget is taken from, the
\* stop distance and the close of the last bar, the market's limits
SzEquities == { 100 * OneEUR, 1000 * OneEUR }
SzStops == { 0, 8, 25, 5000 }
SzPrices == { 200, 300, 2000 }
SzMinCosts == { None, Some(0), Some(OneEUR \div 2), Some(5 * OneEUR) }
SzMinQtys == { None, Some(1), Some(300) }

\* src/bot.py lines 188-205: the quantity the trading path orders, or why it
\* skips the symbol
size(equity_ref, stop_dist, px, min_cost, min_qty) ==
    IF stop_dist <= 0 THEN [ skip |-> "stop", base |-> 0, qty |-> 0 ]
    ELSE LET base == base_qty(risk_budget(equity_ref), stop_dist)
             qty  == adjust_min(base, px, min_cost, min_qty)
         IN  [ skip |-> IF qty * px < OneEUR THEN "floor" ELSE "",
               base |-> base, qty |-> qty ]

\* src/audit.py lines 106-129: the auditor's dry-run sizing of a symbol
classify(equity_ref, atr_stop, px, min_cost, min_qty) ==
    IF atr_stop <= 0 THEN [ verdict |-> "warn_stop", qty |-> 0, reasons |-> {} ]
    ELSE LET risk_eur == Div(cfg.risk_per_trade_bps * equity_ref, Bps)
             qty      == Div(risk_eur, atr_stop)
             notional == qty * px
             reasons  ==
                 (IF Truthy(min_cost) /\ notional < min_cost[1]
                  THEN { "min_cost" } ELSE {})
                 \cup (IF Truthy(min_qty) /\ qty < min_qty[1]
                       THEN { "min_qty" } ELSE {})
                 \cup (IF notional < OneEUR THEN { "floor" } ELSE {})
         IN  [ verdict |-> IF reasons # {} THEN "non_tradable" ELSE "tradable",
               qty |-> qty, reasons |-> reasons ]

SizerInit ==
    /\ Idle
    /\ PAPER = TRUE
    /\ analysisOnly = FALSE
    /\ disk = DefaultData
    /\ realized = RealizedIn(disk)
    /\ au = NoAudit
    /\ st = NoSeries
    /\ sz \in [ equity_ref : SzEquities, stop_dist : SzStops, px : SzPrices,
                min_cost : SzMinCosts, min_qty : SzMinQtys,
                live : { None }, audit : { None } ]

\* the trading path sizes the inputs
SizeLive ==
    /\ sz.live = None
    /\ sz' = [ sz EXCEPT !.live =
                 Some(size(sz.equity_ref, sz.stop_dist, sz.px, sz.min_cost, sz.min_qty)) ]
    /\ UNCHANGED << botVars, au, st >>

\* the auditor sizes the same inputs
SizeAudit ==
    /\ sz.audit = None
    /\ sz' = [ sz EXCEPT !.audit =
                 Some(classify(sz.equity_ref, sz.stop_dist, sz.px, sz.min_cost,
                               sz.min_qty)) ]
    /\ UNCHANGED << botVars, au, st >>

SizerNext == SizeLive \/ SizeAudit

SizerSpec == SizerInit /\ [][SizerNext]_vars

\* ========================================================= src/audit.py
\* fetch_balance()'s EUR total, fetch_trading_fees()'s taker rate in bps
\* (None: not available), and the last bar of a symbol's series
AuBalances == { 0, 100 * OneEUR }
AuFees == { None, Some(16) }
AuStops == { 0, 8, 5000 }
AuCloses == { 2000 }
AuFetchOutcomes == { "ok", "error", "short" }

\* line 110
audit_equity_ref(eur_total) == IF eur_total > 0 THEN eur_total ELSE cfg.paper_start_eur

AuditInit ==
    /\ Idle
    /\ PAPER = TRUE
    /\ analysisOnly = FALSE
    /\ disk = DefaultData
    /\ realized = RealizedIn(disk)
    /\ sz = NoSizing
    /\ st = NoSeries
    /\ au = [ NoAudit EXCEPT !.pc = "start" ]

\* lines 48-57: fetch_balance raises
AuditApiFails ==
    /\ au.pc = "start"
    /\ au' = [ au EXCEPT !.pc = "exit", !.passed = FALSE, !.code = Some(1) ]
    /\ UNCHANGED << botVars, sz, st >>

\* lines 48-89: the balance is read, the fee tier looked up (best effort),
\* the markets loaded and the configured symbols looked up in them
AuditApiOk ==
    /\ au.pc = "start"
    /\ \E total \in AuBalances, fee \in AuFees, ms \in MarketSets :
         LET missing == { s \in CfgSymbols : s \notin ms }
         IN  au' = [ au EXCEPT
                       !.pc = "loop",
                       !.taker_bps = IF fee # None THEN fee[1] ELSE 26,
                       !.markets = ms,
                       !.passed = IF missing # {} THEN FALSE ELSE @,
                       !.eur_total = total,
                       !.seen = [ s \in CfgSymbols |->
                                    IF s \in missing THEN "missing" ELSE "" ] ]
    /\ UNCHANGED << botVars, sz, st >>

AuditInLoop == au.pc = "loop" /\ au.idx <= Len(cfg.symbols)

\* lines 92-93
AuditSkipMissing ==
    /\ AuditInLoop
    /\ cfg.symbols[au.idx] \notin au.markets
    /\ au' = [ au EXCEPT !.idx = @ + 1 ]
    /\ UNCHANGED << botVars, sz, st >>

\* lines 94-133 for a listed symbol
AuditSymbol ==
    /\ AuditInLoop
    /\ cfg.symbols[au.idx] \in au.markets
    /\ \E f \in AuFetchOutcomes, stop \in AuStops, px \in AuCloses :
         LET sym == cfg.symbols[au.idx]
             c   == classify(audit_equity_ref(au.eur_total), stop, px,
                             Limits(sym).cost_min, Limits(sym).amount_min)
         IN  au' = IF f = "error"
                   THEN [ au EXCEPT !.idx = @ + 1, !.passed = FALSE,
                                    !.seen[sym] = "error" ]
                   ELSE IF f = "short"
                   THEN [ au EXCEPT !.idx = @ + 1, !.seen[sym] = "insufficient" ]
                   ELSE IF c.verdict = "warn_stop"
                   THEN [ au EXCEPT !.idx = @ + 1, !.seen[sym] = "warn_stop" ]
                   ELSE IF c.verdict = "non_tradable"
                   THEN [ au EXCEPT !.idx = @ + 1, !.passed = FALSE,
                                    !.seen[sym] = "non_tradable" ]
                   ELSE [ au EXCEPT !.idx = @ + 1, !.seen[sym] = "tradable" ]
    /\ UNCHANGED << botVars, sz, st >>

\* lines 135-145
AuditFinish ==
    /\ au.pc = "loop"
    /\ au.idx > Len(cfg.symbols)
    /\ au' = [ au EXCEPT !.pc = "exit",
                         !.code = IF ~au.passed THEN Some(2) ELSE Some(0) ]
    /\ UNCHANGED << botVars, sz, st >>

AuditNext ==
    \/ AuditApiFails
    \/ AuditApiOk
    \/ AuditSkipMissing
    \/ AuditSymbol
    \/ AuditFinish

AuditSpec == AuditInit /\ [][AuditNext]_vars

\* ====================================================== src/strategy.py
\* EMACrossATR(ema_fast, ema_slow, atr_period, atr_k); atr_k = 2.5 is kept
\* as the fraction atr_k_num / atr_k_den
strat ==
    [ ema_fast |-> 3, ema_slow |-> 7, atr_period |-> 2,
      atr_k_num |-> 5, atr_k_den |-> 2 ]

\* price series: closes in ticks, high and low at the same distance around
\* the close
SeriesBars ==
    { [ high |-> c + r, low |-> c - r, close |-> c ] : c \in 1..3, r \in 0..1 }
SeriesSet == UNION { [ 1..n -> SeriesBars ] : n \in 1..MaxBars }

RECURSIVE Pow(_, _)
Pow(b, n) == IF n = 0 THEN 1 ELSE b * Pow(b, n - 1)

Max2(a, b) == IF a >= b THEN a ELSE b
Abs(a) == IF a < 0 THEN -a ELSE a

\* df['close'].ewm(span=span, adjust=False).mean() at bar i, exactly, as the
\* numerator over (span+1)^(i-1): y[1] = x[1],
\* y[i] = (1 - alpha) * y[i-1] + alpha * x[i] with alpha = 2 / (span + 1)
RECURSIVE ewm_mean(_, _, _)
ewm_mean(bars, span, i) ==
    IF i = 1 THEN bars[1].close
    ELSE (span - 1) * ewm_mean(bars, span, i - 1)
         + 2 * bars[i].close * Pow(span + 1, i - 2)

\* the two averages of bar i on one scale: times
\* ((ema_fast + 1) * (ema_slow + 1))^(i-1)
ema_fast_at(bars, i) ==
    ewm_mean(bars, strat.ema_fast, i) * Pow(strat.ema_slow + 1, i - 1)
ema_slow_at(bars, i) ==
    ewm_mean(bars, strat.ema_slow, i) * Pow(strat.ema_fast + 1, i - 1)

\* lines 12-22: true range (max skips the NaN of the first bar's previous
\* close) and its rolling mean with min_periods=1, as sum and count
true_range(bars, i) ==
    LET hl == bars[i].high - bars[i].low
    IN  IF i = 1 THEN hl
        ELSE Max2(hl, Max2(Abs(bars[i].high - bars[i - 1].close),
                           Abs(bars[i].low - bars[i - 1].close)))
atr_window(i) == { j \in 1..i : j > i - strat.atr_period }
atr_sum(bars, i) ==
    SumOver(atr_window(i), [ j \in atr_window(i) |-> true_range(bars, j) ])

\* mutant: the previous bar must be strictly on the other side
signal_long_strict(bars, i) ==
    /\ i > 1
    /\ ema_fast_at(bars, i) > ema_slow_at(bars, i)
    /\ ema_fast_at(bars, i - 1) < ema_slow_at(bars, i - 1)

\* line 29; shift(1) is NaN at the first bar and a comparison with NaN is
\* False
signal_long(bars, i) ==
    /\ i > 1
    /\ ema_fast_at(bars, i) > ema_slow_at(bars, i)
    /\ ema_fast_at(bars, i - 1) <= ema_slow_at(bars, i - 1)

\* line 30
signal_exit(bars, i) ==
    /\ i > 1
    /\ ema_fast_at(bars, i) < ema_slow_at(bars, i)
    /\ ema_fast_at(bars, i - 1) >= ema_slow_at(bars, i - 1)

\* line 31: atr_k * atr, cut off at the tick
stop_dist_at(bars, i) ==
    Div(strat.atr_k_num * atr_sum(bars, i),
        strat.atr_k_den * Cardinality(atr_window(i)))

\* lines 24-32: one row per bar
compute(bars) ==
    [ i \in 1..Len(bars) |->
        [ ema_fast    |-> ema_fast_at(bars, i),
          ema_slow    |-> ema_slow_at(bars, i),
          signal_long |-> signal_long(bars, i),
          signal_exit |-> signal_exit(bars, i),
          stop_dist   |-> stop_dist_at(bars, i) ] ]

StrategyInit ==
    /\ Idle
    /\ PAPER = TRUE
    /\ analysisOnly = FALSE
    /\ disk = DefaultData
    /\ realized = RealizedIn(disk)
    /\ sz = NoSizing
    /\ au = NoAudit
    /\ st \in { [ bars |-> b, out |-> None ] : b \in SeriesSet }

Compute ==
    /\ st.out = None
    /\ st' = [ st EXCEPT !.out = Some(compute(st.bars)) ]
    /\ UNCHANGED << botVars, sz, au >>

StrategyNext == Compute

StrategySpec == StrategyInit /\ [][StrategyNext]_vars

\* ================================================================ claims
Threshold(data) == -(cfg.max_daily_drawdown_bps * equity_reference(data))
IterationOf(s) == pc = "loop" /\ idx <= Len(cfg.symbols) /\ cfg.symbols[idx] = s
NewRows == { fills'[i] : i \in (Len(fills) + 1)..Len(fills') }
LastFill == fills[Len(fills)]

\* C1: a symbol that is in a position is not entered again: a long-entry
\* flag with no exit in the iteration leaves the symbol's Position and the
\* fill log as they were; an iteration that exits the symbol leaves it flat
\* and logs no ENTRY; and an iteration touches no other symbol's Position.
C1_SinglePosition ==
    [][ \A s \in CfgSymbols :
          IterationOf(s) =>
            /\ ( /\ mem.positions[s].qty > 0
                 /\ ev'.kind = "evaluated" /\ ev'.long_flag /\ ev'.exit = "none" )
               => ( /\ pc' = "loop"
                    /\ mem'.positions[s] = mem.positions[s]
                    /\ fills' = fills )
            /\ mem.positions[s].qty > 0
               => \A r \in NewRows : r.action # "ENTRY"
            /\ (ev'.exit # "none" /\ pc' = "loop")
               => mem'.positions[s] = FlatPos
            /\ pc' = "loop"
               => \A t \in Symbols \ { s } : mem'.positions[t] = mem.positions[t]
      ]_vars
C1_Witness ==
    /\ pc = "loop" /\ ev.kind = "evaluated"
    /\ ev.in_pos /\ ev.long_flag /\ ev.exit = "none"
    /\ mem.positions[ev.sym].qty > 0

\* C2: the loop is entered only with the day's P&L, after the reset,
\* strictly above -(max_daily_drawdown_bps/10000) * equity reference and
\* with the UTC hour in [start_hour, end_hour); state.json and fills.csv
\* change only inside the loop, so a run a gate ends changes neither.
C2_Gates ==
    /\ [] ( pc = "loop" =>
              /\ gate.today.pnl * Bps
                   > -(cfg.max_daily_drawdown_bps * gate.equity_ref)
              /\ cfg.session_utc.start_hour <= clock.hour
              /\ clock.hour < cfg.session_utc.end_hour )
    /\ [][ pc = "idle" => (disk' = disk /\ fills' = fills) ]_vars
C2_Witness ==
    /\ lastOutcome = "drawdown"
    /\ gate.today.date = Some(clock.date)
    /\ gate.today.pnl * Bps = -(cfg.max_daily_drawdown_bps * gate.equity_ref)

\* C3: every FLAT -> LONG transition is taken with the day's P&L strictly
\* above -(max_daily_drawdown_bps/10000) * equity reference, also after
\* exits of earlier symbols of the same run.
C3_NoEntryWhileTripped ==
    [][ \A s \in CfgSymbols :
          ( /\ pc = "loop" /\ pc' = "loop"
            /\ mem.positions[s].qty = 0 /\ mem'.positions[s].qty > 0 )
          => mem.today.pnl * Bps > Threshold(mem)
      ]_vars

\* C4: once the drawdown gate has ended a run on a UTC date, every later
\* run on that date is ended by it too, and state.json and fills.csv stay
\* as they are until the date changes.
C4_BreakerHolds ==
    /\ [] ( (blockedAt # None /\ blockedAt[1].date = clock.date)
              => (pc = "idle" /\ lastOutcome = "drawdown") )
    /\ [][ (blockedAt # None /\ blockedAt[1].date = clock'.date)
              => (disk' = disk /\ fills' = fills) ]_vars
C4_Witness ==
    /\ lastOutcome = "drawdown"
    /\ blockedAt # None
    /\ blockedAt[1].date = clock.date
    /\ blockedAt[1].hour < clock.hour

\* C5: a run on a UTC date other than the stored one checks the drawdown
\* gate against zeroed accumulators carrying the new date, whatever was
\* accumulated before, and is not ended by the drawdown gate.
C5_ResetBeforeCheck ==
    ( /\ lastOutcome \in { "running", "drawdown", "session" }
      /\ gate.stored_date # Some(clock.date) )
    => ( /\ gate.today = ZeroDay(Some(clock.date))
         /\ lastOutcome # "drawdown" )
C5_Witness ==
    /\ lastOutcome = "running"
    /\ disk.today.date # None
    /\ disk.today.date # Some(clock.date)
    /\ disk.today.pnl * Bps <= Threshold(disk)
    /\ gate.today = ZeroDay(Some(clock.date))

\* C6: an iteration that finds the bar's low at or below the stored stop
\* and the exit flag set, and whose order is not rejected, logs exactly one
\* row, an EXIT of the symbol with reason "stop"; an EXIT row with reason
\* "signal_exit" is logged only with the exit flag set and the stop not
\* breached.
C6_StopPriority ==
    [][ \A s \in CfgSymbols :
          IterationOf(s) =>
            /\ (ev'.breach /\ ev'.exit_flag /\ pc' = "loop")
               => /\ Len(fills') = Len(fills) + 1
                  /\ fills'[Len(fills')].symbol = s
                  /\ fills'[Len(fills')].action = "EXIT"
                  /\ fills'[Len(fills')].reason = "stop"
            /\ \A r \in NewRows :
                 (r.action = "EXIT" /\ r.reason = "signal_exit")
                 => (ev'.exit_flag /\ ~ev'.breach)
      ]_vars
C6_Witness ==
    /\ pc = "loop" /\ ev.breach /\ ev.exit_flag /\ ev.exit = "done"
    /\ LastFill.reason = "stop"

\* C7: after an entry the stored entry price is the fill price the
\* execution adapter returned, and the stored stop price is that fill
\* price minus the stop distance of the signal bar.
C7_EntryBookkeeping ==
    (pc = "loop" /\ ev.entry = "done")
    => ( /\ mem.positions[ev.sym].entry = ev.fill_px
         /\ mem.positions[ev.sym].stop = ev.fill_px - ev.stop_dist )

\* C8: in state.json every position with quantity > 0 has its stop price
\* strictly below its entry price, and no quantity is negative.
C8_PositionInvariant ==
    \A s \in Symbols :
        /\ disk.positions[s].qty >= 0
        /\ disk.positions[s].qty > 0
           => disk.positions[s].stop < disk.positions[s].entry

\* C9: an exit the execution adapter does not fill leaves state.json as
\* it was, the symbol's position, the day's P&L and the trade count
\* included, so that the next run starts with the symbol still LONG.
C9_ExitFailure ==
    /\ [] ( ev.exit = "failed"
              => /\ pc = "idle" /\ lastOutcome = "abort"
                 /\ disk.positions[ev.sym].qty > 0 )
    /\ [][ ev'.exit = "failed" => (disk' = disk /\ fills' = fills) ]_vars
C9_Witness ==
    /\ ev.exit = "failed" /\ pc = "idle"
    /\ ev.exit_reason = "stop"
    /\ disk.positions[ev.sym].qty > 0

\* C10: an entry the execution adapter does not fill creates no Position,
\* leaves the cash as it was, logs no row, and the loop moves on to the
\* next symbol (paper) or the run ends without writing state.json (live).
C10_EntryFailure ==
    [][ \A s \in CfgSymbols :
          (IterationOf(s) /\ ev'.entry = "failed") =>
            /\ fills' = fills
            /\ disk' = disk
            /\ \/ /\ pc' = "loop" /\ idx' = idx + 1
                  /\ mem'.positions = mem.positions
                  /\ mem'.cash_eur = mem.cash_eur
                  /\ broker' = broker
               \/ /\ pc' = "idle" /\ lastOutcome' = "abort"
      ]_vars
C10_Witness ==
    /\ pc = "loop" /\ PAPER /\ ev.entry = "failed"
    /\ mem.positions[ev.sym] = FlatPos
    /\ broker.cash = mem.cash_eur[1]

\* C11: a loop iteration never ends the run: whatever happens to its symbol
\* (fetch failure, a series of fewer than 2 bars, non-positive stop
\* distance, size below the floor, rejected order), the loop moves on to
\* the next configured symbol, and so reaches the final save of state.json.
C11_ErrorIsolation ==
    [][ InLoop => (pc' = "loop" /\ idx' = idx + 1 /\ lastOutcome' # "abort") ]_vars

\* C12: a quantity the sizing rule returns for a positive stop distance and
\* price and a minimum notional > 0 has quantity * price >= that minimum,
\* and is >= the minimum quantity when one is set; minimum notional 5 EUR at
\* price 2 EUR with base quantity 1.0 gives at least 2.5; and no quantity
\* with quantity * price < 1 EUR is returned.
C12_SizerFloor ==
    (sz.live # None /\ sz.live[1].skip = "") =>
        LET r == sz.live[1]
        IN  /\ sz.stop_dist > 0
            /\ r.qty * sz.px >= OneEUR
            /\ (sz.min_cost # None /\ sz.min_cost[1] > 0)
               => r.qty * sz.px >= sz.min_cost[1]
            /\ sz.min_qty # None => r.qty >= sz.min_qty[1]
            /\ (sz.min_cost = Some(5 * OneEUR) /\ sz.px = 200 /\ r.base = 100)
               => r.qty >= 250
C12_Witness ==
    /\ sz.live # None /\ sz.live[1].skip = ""
    /\ sz.min_cost = Some(5 * OneEUR) /\ sz.px = 200 /\ sz.min_qty = None
    /\ sz.live[1].base = 100 /\ sz.live[1].qty = 250

\* C13 as claimed: before any minimum adjustment the quantity is
\* risk_budget / stop_distance with risk_budget = risk_per_trade_bps / 10000
\* * equity, in the trading path and in the auditor; for 25 bps, equity
\* 1000 EUR and stop distance 50 EUR it is 0.5 coin (50 quantity units).
C13_BaseSizing_Claimed ==
    (sz.live # None /\ sz.audit # None /\ sz.stop_dist > 0) =>
        LET budget == (25 * sz.equity_ref) \div 10000
        IN  /\ sz.live[1].base = budget \div sz.stop_dist
            /\ sz.audit[1].qty = budget \div sz.stop_dist
            /\ (sz.equity_ref = 1000 * OneEUR /\ sz.stop_dist = 5000)
               => sz.live[1].base = 50

\* C13 as amended: the same rule; for 25 bps, equity 1000 EUR and stop
\* distance 50 EUR the quantity is 0.05 coin (5 quantity units).
C13_BaseSizing ==
    (sz.live # None /\ sz.audit # None /\ sz.stop_dist > 0) =>
        LET budget == (25 * sz.equity_ref) \div 10000
        IN  /\ sz.live[1].base = budget \div sz.stop_dist
            /\ sz.audit[1].qty = budget \div sz.stop_dist
            /\ (sz.equity_ref = 1000 * OneEUR /\ sz.stop_dist = 5000)
               => (sz.live[1].base = 5 /\ sz.audit[1].qty = 5)
C13_Witness ==
    /\ sz.live # None /\ sz.audit # None
    /\ sz.equity_ref = 1000 * OneEUR /\ sz.stop_dist = 5000
    /\ sz.live[1].base = 5

\* C14: on the same inputs the auditor classifies the symbol as tradable
\* exactly when the trading path's sizing gives an order, and then the two
\* quantities are the same.
C14_SameSizing ==
    (sz.live # None /\ sz.audit # None) =>
        /\ (sz.audit[1].verdict = "tradable") <=> (sz.live[1].skip = "")
        /\ sz.live[1].skip = "" => sz.audit[1].qty = sz.live[1].qty

\* C15: the auditor exits with 0 only after a successful API check with
\* every configured symbol listed and classified tradable; a failed API
\* check exits with 1 before any symbol is looked at; and with a configured
\* symbol missing, short of history, failing to fetch, with a non-positive
\* stop distance or below a minimum, it exits with 2.
C15_AuditVerdict ==
    au.pc = "exit" =>
        /\ au.code = Some(0)
           => \A s \in CfgSymbols : s \in au.markets /\ au.seen[s] = "tradable"
        /\ au.code = Some(1)
           => (au.idx = 1 /\ \A s \in CfgSymbols : au.seen[s] = "")
        /\ (\E s \in CfgSymbols :
              au.seen[s] \in { "missing", "insufficient", "error", "warn_stop",
                               "non_tradable" })
           => au.code = Some(2)

\* C16: the equity a run saves is the cash plus, over every symbol with a
\* position, quantity * the symbol's current price, also for a held symbol
\* the run skipped: every held symbol has a price in the run, and the saved
\* equity is the cash (paper: the broker's; live: the EUR total) plus that sum.
C16_EquityRecomputed ==
    [][ (pc = "loop" /\ pc' = "idle" /\ lastOutcome' = "saved") =>
          LET held == { s \in Symbols : mem.positions[s].qty > 0 }
              worth == SumOver(held, [ s \in held |->
                           mem.positions[s].qty * OrElse(prices[s], 0) ])
          IN  /\ \A s \in held : prices[s] # None
              /\ disk'.equity # None
              /\ IF PAPER THEN disk'.equity[1] = broker.cash + worth
                 ELSE disk'.equity[1] - worth \in LiveBalances
      ]_vars

\* the averages cross upwards (downwards) between bar i-1 and bar i
UpCross(rows, i) ==
    /\ rows[i - 1].ema_fast <= rows[i - 1].ema_slow
    /\ rows[i].ema_fast > rows[i].ema_slow
DownCross(rows, i) ==
    /\ rows[i - 1].ema_fast >= rows[i - 1].ema_slow
    /\ rows[i].ema_fast < rows[i].ema_slow

\* C17: at every bar i after the first the long-entry flag is set exactly
\* when fast <= slow at i-1 and fast > slow at i, and the exit flag exactly
\* when fast >= slow at i-1 and fast < slow at i; the first bar has neither
\* flag; no bar has both; and a series with a single upward cross has
\* exactly one bar with the long-entry flag.
C17_CrossDetection ==
    st.out # None =>
        LET rows == st.out[1]
            n    == Len(rows)
        IN  /\ n = Len(st.bars)
            /\ \A i \in 2..n :
                 /\ rows[i].signal_long <=> UpCross(rows, i)
                 /\ rows[i].signal_exit <=> DownCross(rows, i)
            /\ ~rows[1].signal_long /\ ~rows[1].signal_exit
            /\ \A i \in 1..n : ~(rows[i].signal_long /\ rows[i].signal_exit)
            /\ Cardinality({ i \in 2..n : UpCross(rows, i) }) = 1
               => Cardinality({ i \in 1..n : rows[i].signal_long }) = 1
C17_Witness ==
    /\ st.out # None
    /\ Len(st.bars) = 3
    /\ st.out[1][2].ema_fast = st.out[1][2].ema_slow
    /\ st.out[1][3].signal_long
    /\ Cardinality({ i \in 1..3 : st.out[1][i].signal_long }) = 1

\* C18: between runs, in state.json the day's P&L is the sum of (exit fill price - entry
\* price) * quantity over the exits made on the stored UTC date and the
\* trade count is their number; and an iteration that enters a position
\* changes neither.
C18_DailyAccounting ==
    /\ [] ( (pc = "idle" /\ disk.today.date # None) =>
              /\ disk.today.pnl = realized[disk.today.date[1]].pnl
              /\ disk.today.trades = realized[disk.today.date[1]].trades )
    /\ [][ (pc = "loop" /\ ev'.entry = "done" /\ ev'.exit = "none")
             => mem'.today = mem.today ]_vars

\* the most recent row of symbol s in fills.csv is an ENTRY
RowsOf(s) == { i \in 1..Len(fills) : fills[i].symbol = s }
LastRowIsEntry(s) ==
    /\ RowsOf(s) # {}
    /\ fills[CHOOSE i \in RowsOf(s) : \A j \in RowsOf(s) : j <= i].action = "ENTRY"

\* C19: between runs, also after a run an error ended, the symbols with a
\* position in state.json are exactly the symbols whose most recent row in
\* fills.csv is an ENTRY.
C19_LogMatchesState ==
    pc = "idle" =>
        \A s \in Symbols : (disk.positions[s].qty > 0) <=> LastRowIsEntry(s)

\* C20: in paper mode the cash, in the broker and in state.json, is never
\* negative, and at the end of each run the broker's holding of every symbol
\* is the quantity of the symbol's position, which is what the run saves.
C20_PaperSound ==
    /\ [] ( PAPER =>
              /\ broker.cash >= 0
              /\ disk.cash_eur # None => disk.cash_eur[1] >= 0
              /\ (pc = "loop" /\ idx > Len(cfg.symbols))
                 => \A s \in Symbols : broker.holdings[s] = mem.positions[s].qty )
    /\ [][ (PAPER /\ pc = "loop" /\ pc' = "idle" /\ lastOutcome' = "saved")
             => /\ disk'.cash_eur = Some(broker.cash)
                /\ \A s \in Symbols : disk'.positions[s].qty = broker.holdings[s]
       ]_vars
C20_Witness ==
    /\ PAPER /\ pc = "loop" /\ idx > Len(cfg.symbols)
    /\ Len(fills) = 2
    /\ fills[1].action = "ENTRY" /\ fills[2].action = "EXIT"
    /\ broker.cash > 0 /\ broker.cash < cfg.paper_start_eur
    /\ \A s \in Symbols : broker.holdings[s] = 0

====
